---- MODULE Spec2Model ----
(***************************************************************************)
(* Smart-Fridge Culinary Assistant.                                        *)
(*                                                                         *)
(* Two pieces of logic are modelled:                                       *)
(*   - the recipe acquisition pipeline of App (handleImageUpload and       *)
(*     handleFilterChange with the three gateway calls of geminiService),  *)
(*     under the specification Spec;                                       *)
(*   - the narration machine of RecipeModal (isSpeaking, currentStepIndex, *)
(*     the effect that speaks a step, and the browser's speechSynthesis),  *)
(*     under the specification NarrationSpec.                              *)
(*                                                                         *)
(* Every asynchronous handler is cut at its awaits: one action per         *)
(* continuation.  A gateway call is outstanding between the action that    *)
(* issues it and the action that settles it.                               *)
(***************************************************************************)
EXTENDS Integers, Sequences, FiniteSets, TLC

VARIABLES
    appState,               \* App: 'initial' | 'analyzing' | 'generating' | 'results'
    error,                  \* App: error message, or NoError
    identifiedIngredients,  \* App: string[]
    recipes,                \* App: Recipe[]
    activeFilters,          \* App: DietaryRestriction[]
    selectedRecipe,         \* App: Recipe | null, the prop `recipe` of RecipeModal
    runs,                   \* the invocations of handleImageUpload / handleFilterChange
    isSpeaking,             \* RecipeModal: useState(false)
    currentStepIndex,       \* RecipeModal: useState(0)
    queue,                  \* speechSynthesis: the utterance queue (head is the current one)
    synthPaused,            \* speechSynthesis.paused
    headDone,               \* the current utterance has been spoken to its end
    endEvents,              \* 'end' events reported by the engine, not yet dispatched
    lastOp,                 \* history: the last narration operation that ran
    lastOpened,             \* history: the recipe opened last
    lateEnd,                \* history: an 'end' event of a cancelled utterance was dispatched
    requests                \* history: the utterances the last operation passed to speak()

appVars == <<appState, error, identifiedIngredients, recipes, activeFilters, runs>>
modalVars == <<selectedRecipe, isSpeaking, currentStepIndex, queue, synthPaused,
               headDone, endEvents, lastOp, lastOpened, lateEnd, requests>>
vars == <<appState, error, identifiedIngredients, recipes, activeFilters,
          selectedRecipe, runs, isSpeaking, currentStepIndex, queue, synthPaused,
          headDone, endEvents, lastOp, lastOpened, lateEnd, requests>>

\* null: of `error` (a string or null) and of `selectedRecipe` (a Recipe or null).
NoError == "null"
Null == [null |-> TRUE]

\* ------------------------------------------------------------------ bounds

\* How many pipeline runs (uploads and filter refreshes) one behaviour starts.
MaxRuns == 2

\* How many 'end' events of the speech engine may wait for their dispatch.
MaxEndEvents == 1

\* The longest response text of the extraction service under ExtractionSpec.
MaxTextLen == 5

\* How many filter refreshes one behaviour of RefreshSpec starts.
MaxRefreshes == 3

\* ------------------------------------------------------------------ inputs

\* The dietary tags the user toggles (two of the seven values of the enum).
DietaryRestriction == {"Vegetarian", "Keto"}

\* Recipes the generation service may return.  `instructions` holds the step texts.
Omelette ==
    [name |-> "Omelette", difficulty |-> "Medium", prepTime |-> "10 minutes",
     calories |-> 300,
     ingredients |-> <<[name |-> "Eggs", quantity |-> "3"],
                       [name |-> "Butter", quantity |-> "1 tbsp"]>>,
     instructions |-> <<"whisk", "fry", "fold">>]

Toast ==
    [name |-> "Toast", difficulty |-> "Easy", prepTime |-> "5 minutes",
     calories |-> 120,
     ingredients |-> <<[name |-> "Bread", quantity |-> "2 slices"]>>,
     instructions |-> <<"toast">>]

Garnish ==
    [name |-> "Garnish", difficulty |-> "Easy", prepTime |-> "1 minute",
     calories |-> 5,
     ingredients |-> <<>>,
     instructions |-> <<>>]

\* The values `result.recipes` of a generation response whose JSON parsed.
RecipeLists == {<<>>, <<Toast>>, <<Omelette, Toast>>}

\* Response texts of the extraction service, as sequences of characters.
\* <<>> is a response without text.
IngredientTexts == {<<>>, <<" ", ",">>, <<"E", ",", " ", "m">>}

\* ------------------------------------------------------------------ geminiService

\* String.prototype.toLowerCase on the characters used here.
toLowerCase(s) ==
    [i \in 1..Len(s) |-> IF s[i] = "E" THEN "e" ELSE s[i]]

RECURSIVE trimStart(_)
trimStart(s) ==
    IF s # <<>> /\ Head(s) = " " THEN trimStart(Tail(s)) ELSE s

RECURSIVE trimEnd(_)
trimEnd(s) ==
    IF s # <<>> /\ s[Len(s)] = " " THEN trimEnd(SubSeq(s, 1, Len(s) - 1)) ELSE s

\* trim that strips the leading whitespace only.
trimLeading(s) == trimStart(s)

\* String.prototype.trim
trim(s) == trimEnd(trimStart(s))

RECURSIVE splitFrom(_, _, _)
splitFrom(s, i, cur) ==
    IF i > Len(s) THEN <<cur>>
    ELSE IF s[i] = "," THEN <<cur>> \o splitFrom(s, i + 1, <<>>)
    ELSE splitFrom(s, i + 1, Append(cur, s[i]))

\* String.prototype.split(',')
split(s) == splitFrom(s, 1, <<>>)

\* A call of the gateway either throws or returns a value.
Thrown(message) == [tag |-> "throw", message |-> message]
Returned(value) == [tag |-> "return", value |-> value]

\* What a service answers (the inputs of the pipeline):
\*   extraction  FailResp (the call raised) or TextResp(text)
\*   generation  FailResp (the call raised, or the text is no JSON),
\*               UndefinedResp (parsed JSON without the field `recipes`) or
\*               ListResp(list) (result.recipes)
\*   image       "fail" (the call raised, or no inline image) or "ok"
FailResp == [tag |-> "fail"]
TextResp(text) == [tag |-> "text", text |-> text]
UndefinedResp == [tag |-> "undefined"]
ListResp(list) == [tag |-> "list", recipes |-> list]
PendingResp == [tag |-> "pending"]
NoResp == [tag |-> "none"]
Pending == "pending"

AnalyzeError == "Failed to analyze image with Gemini API."
RecipesError == "Failed to generate recipes with Gemini API."
MapTypeError == "Cannot read properties of undefined (reading 'map')"

\* analyzeFridgeContents with a catch block that returns [] instead of throwing.
analyzeFridgeContentsSwallowing(resp) ==
    IF resp.tag = "fail" THEN Returned(<<>>)
    ELSE IF resp.text = <<>> THEN Returned(<<>>)
    ELSE LET pieces == split(resp.text)
             mapped == [i \in 1..Len(pieces) |-> toLowerCase(trim(pieces[i]))]
         IN  Returned(SelectSeq(mapped, LAMBDA p : p # <<>>))

\* analyzeFridgeContents
analyzeFridgeContents(resp) ==
    IF resp.tag = "fail" THEN Thrown(AnalyzeError)
    ELSE IF resp.text = <<>> THEN Returned(<<>>)
    ELSE LET pieces == split(resp.text)
             mapped == [i \in 1..Len(pieces) |-> toLowerCase(trim(pieces[i]))]
         IN  Returned(SelectSeq(mapped, LAMBDA p : p # <<>>))

\* getRecipes with a catch block that returns [] instead of throwing.
getRecipesSwallowing(resp) ==
    IF resp.tag = "fail" THEN Returned(ListResp(<<>>)) ELSE Returned(resp)

\* getRecipes that throws also while the app holds the error of an earlier run.
getRecipesUnlessError(resp) ==
    IF resp.tag = "fail" \/ error # NoError THEN Thrown(RecipesError) ELSE Returned(resp)

\* getRecipes: returns result.recipes, which is undefined when the field is absent.
getRecipes(resp) ==
    IF resp.tag = "fail" THEN Thrown(RecipesError) ELSE Returned(resp)

\* generateRecipeImage(recipeName).  The data URI returned is identified by
\* the recipe name the prompt was built from.
generateRecipeImage(recipeName, resp) ==
    IF resp = "fail" THEN Thrown("image")
    ELSE Returned(<<"data:image/png", recipeName>>)

\* ------------------------------------------------------------------ App: the pipeline

\* One element of the array built by generatedRecipes.map: the callback's
\* result for `recipe` once its image call settled with `resp`.
WithImage(recipe, resp) ==
    LET imageUrl == generateRecipeImage(recipe.name, resp)
    IN  IF imageUrl.tag = "throw"
        THEN recipe
        ELSE [field \in DOMAIN recipe \cup {"imageUrl"} |->
                 IF field = "imageUrl" THEN imageUrl.value ELSE recipe[field]]

\* recipesWithImages without the recipes whose image call failed.
RecipesWithImagesOnly(generated, img) ==
    LET all == [i \in 1..Len(generated) |-> WithImage(generated[i], img[i])]
    IN  SelectSeq(all, LAMBDA recipe : "imageUrl" \in DOMAIN recipe)

\* recipesWithImages in which a recipe gets the image of the call made for
\* the recipe at the mirrored position of the list.
RecipesWithImagesMirrored(generated, img) ==
    [i \in 1..Len(generated) |->
        LET j == Len(generated) + 1 - i
            imageUrl == generateRecipeImage(generated[j].name, img[i])
        IN  IF imageUrl.tag = "throw"
            THEN generated[i]
            ELSE [field \in DOMAIN generated[i] \cup {"imageUrl"} |->
                     IF field = "imageUrl" THEN imageUrl.value ELSE generated[i][field]]]

\* recipesWithImages
RecipesWithImages(generated, img) ==
    [i \in 1..Len(generated) |-> WithImage(generated[i], img[i])]

\* Promise.race in place of Promise.all: resolved by the first promise settled.
AnySettled(img) ==
    img = <<>> \/ \E i \in 1..Len(img) : img[i] # Pending

\* Promise.all resolves when every promise of the array has settled (none of
\* them rejects: the callback catches).
AllSettled(img) ==
    \A i \in 1..Len(img) : img[i] # Pending

\* A run: one invocation of handleImageUpload ("upload") or of the body of
\* handleFilterChange behind its guard ("refresh").
\*   pc           where the invocation is suspended
\*   filters      the filters the handler passes to getRecipes
\*   ingredients  the ingredient list the handler passes to getRecipes
\*   extractResp, genResp, img   what the services answered
\*   extractCalls, genCalls, imgCalls, wrote   calls of analyzeFridgeContents,
\*                getRecipes, generateRecipeImage, setRecipes
\*   result       the list passed to setRecipes
\*   before       the stored recipe list when the invocation started
NewRun(kind, pc, filters, ingredients) ==
    [kind |-> kind, pc |-> pc, filters |-> filters, ingredients |-> ingredients,
     extractResp |-> IF kind = "upload" THEN PendingResp ELSE NoResp,
     extractCalls |-> IF kind = "upload" THEN 1 ELSE 0,
     genResp |-> IF pc = "generate" THEN PendingResp ELSE NoResp,
     img |-> <<>>,
     genCalls |-> IF pc = "generate" THEN 1 ELSE 0, imgCalls |-> 0,
     wrote |-> 0, result |-> <<>>, outcome |-> "running",
     before |-> recipes]

\* A catch block that sets the error and leaves appState as the run set it.
CatchStateKept(kind) ==
    IF kind = "upload" THEN "analyzing" ELSE "generating"

\* The state the catch block of a handler leaves in appState.
CatchState(kind) ==
    IF kind = "upload" THEN "initial" ELSE "results"

\* handleImageUpload up to its first await.  The file input is rendered in
\* 'initial' and 'analyzing' and is disabled in 'analyzing'.
HandleImageUpload ==
    /\ appState = "initial"
    /\ Len(runs) < MaxRuns
    /\ appState' = "analyzing"
    /\ error' = NoError
    /\ runs' = Append(runs, NewRun("upload", "extract", activeFilters, <<>>))
    /\ UNCHANGED <<identifiedIngredients, recipes, activeFilters>>
    /\ UNCHANGED modalVars

\* handleToggle that adds the tag whether or not it is active.
ToggleFiltersAppending(filters, f) ==
    Append(filters, f)

\* Sidebar.handleToggle
ToggleFilters(filters, f) ==
    IF \E i \in 1..Len(filters) : filters[i] = f
    THEN SelectSeq(filters, LAMBDA g : g # f)
    ELSE Append(filters, f)

\* handleFilterChange that only stores the filters and leaves the filtering
\* of the stored list to the client: no refresh is started.
HandleFilterChangeClientSide(f) ==
    /\ appState \in {"generating", "results"}
    /\ activeFilters' = ToggleFilters(activeFilters, f)
    /\ UNCHANGED <<appState, error, runs, identifiedIngredients, recipes>>
    /\ UNCHANGED modalVars

\* Sidebar.handleToggle + handleFilterChange up to its first await.  The
\* sidebar is rendered whenever appState is 'generating' or 'results'.
\* `cap` bounds the runs of a behaviour.
HandleFilterChangeUpTo(f, cap) ==
    LET newFilters == ToggleFilters(activeFilters, f)
    IN  /\ appState \in {"generating", "results"}
        /\ activeFilters' = newFilters
        /\ IF Len(identifiedIngredients) > 0
           THEN /\ Len(runs) < cap
                /\ appState' = "generating"
                /\ error' = NoError
                /\ runs' = Append(runs, NewRun("refresh", "generate", newFilters,
                                               identifiedIngredients))
           ELSE UNCHANGED <<appState, error, runs>>
        /\ UNCHANGED <<identifiedIngredients, recipes>>
        /\ UNCHANGED modalVars

HandleFilterChange(f) == HandleFilterChangeUpTo(f, MaxRuns)

\* The run after Promise.all resolved: setRecipes, setAppState('results').
Delivered(run, generated, img) ==
    [run EXCEPT !.pc = "done", !.img = img, !.wrote = @ + 1,
                !.result = RecipesWithImages(generated, img),
                !.outcome = "delivered"]

\* The run after the catch block of its handler.
Caught(run) ==
    [run EXCEPT !.pc = "done", !.outcome = "error"]

\* await analyzeFridgeContents(file) settles; handleImageUpload goes on to
\* its second await, or to its catch block.
ExtractSettles(r, resp) ==
    LET run == [runs[r] EXCEPT !.extractResp = resp]
        ingredients == analyzeFridgeContents(resp)
    IN  /\ runs[r].pc = "extract"
        /\ IF ingredients.tag = "throw"
           THEN /\ error' = ingredients.message
                /\ appState' = CatchState(run.kind)
                /\ runs' = [runs EXCEPT ![r] = Caught(run)]
                /\ UNCHANGED identifiedIngredients
           ELSE /\ identifiedIngredients' = ingredients.value
                /\ appState' = "generating"
                /\ runs' = [runs EXCEPT ![r] =
                              [run EXCEPT !.pc = "generate",
                                          !.ingredients = ingredients.value,
                                          !.genResp = PendingResp,
                                          !.genCalls = @ + 1]]
                /\ UNCHANGED error
        /\ UNCHANGED <<recipes, activeFilters>>
        /\ UNCHANGED modalVars

\* await getRecipes(...) settles; the handler maps the recipes to their image
\* calls (all issued at once) and awaits Promise.all, or goes to its catch
\* block: getRecipes threw, or `generatedRecipes.map` threw on undefined.
GenerateSettles(r, resp) ==
    LET run == [runs[r] EXCEPT !.genResp = resp]
        generated == getRecipes(resp)
    IN  /\ runs[r].pc = "generate"
        /\ IF generated.tag = "throw" \/ generated.value.tag = "undefined"
           THEN /\ error' = IF generated.tag = "throw" THEN generated.message
                            ELSE MapTypeError
                /\ appState' = CatchState(run.kind)
                /\ runs' = [runs EXCEPT ![r] = Caught(run)]
                /\ UNCHANGED recipes
           ELSE LET list == generated.value.recipes
                    img == [i \in 1..Len(list) |-> Pending]
                    issued == [run EXCEPT !.pc = "images", !.img = img,
                                          !.imgCalls = Len(list)]
                IN  IF AllSettled(img)
                    THEN /\ recipes' = RecipesWithImages(list, img)
                         /\ appState' = "results"
                         /\ runs' = [runs EXCEPT ![r] = Delivered(issued, list, img)]
                         /\ UNCHANGED error
                    ELSE /\ runs' = [runs EXCEPT ![r] = issued]
                         /\ UNCHANGED <<recipes, appState, error>>
        /\ UNCHANGED <<identifiedIngredients, activeFilters>>
        /\ UNCHANGED modalVars

\* The image call of the i-th recipe settles, and a call that failed is
\* issued once more.
ImageSettlesRetrying(r, i, resp) ==
    LET run == runs[r]
        img == [run.img EXCEPT ![i] = resp]
    IN  /\ run.pc = "images"
        /\ i \in 1..Len(run.img)
        /\ run.img[i] = Pending
        /\ IF resp = "fail"
           THEN /\ runs' = [runs EXCEPT ![r] = [run EXCEPT !.imgCalls = @ + 1]]
                /\ UNCHANGED <<recipes, appState>>
           ELSE IF AllSettled(img)
           THEN /\ recipes' = RecipesWithImages(run.genResp.recipes, img)
                /\ appState' = "results"
                /\ runs' = [runs EXCEPT ![r] = Delivered(run, run.genResp.recipes, img)]
           ELSE /\ runs' = [runs EXCEPT ![r] = [run EXCEPT !.img = img]]
                /\ UNCHANGED <<recipes, appState>>
        /\ UNCHANGED <<error, identifiedIngredients, activeFilters>>
        /\ UNCHANGED modalVars

\* generateRecipeImage of the i-th recipe settles; when it is the last one,
\* Promise.all resolves and the handler delivers.
ImageSettles(r, i, resp) ==
    LET run == runs[r]
        img == [run.img EXCEPT ![i] = resp]
    IN  /\ run.pc = "images"
        /\ i \in 1..Len(run.img)
        /\ run.img[i] = Pending
        /\ IF AllSettled(img)
           THEN /\ recipes' = RecipesWithImages(run.genResp.recipes, img)
                /\ appState' = "results"
                /\ runs' = [runs EXCEPT ![r] = Delivered(run, run.genResp.recipes, img)]
           ELSE /\ runs' = [runs EXCEPT ![r] = [run EXCEPT !.img = img]]
                /\ UNCHANGED <<recipes, appState>>
        /\ UNCHANGED <<error, identifiedIngredients, activeFilters>>
        /\ UNCHANGED modalVars

\* What the three services may answer.
ExtractResps == {FailResp} \cup {TextResp(t) : t \in IngredientTexts}
GenerateResps == {FailResp, UndefinedResp} \cup {ListResp(l) : l \in RecipeLists}
ImageResps == {"fail", "ok"}

\* The state after App and RecipeModal are constructed.
Init ==
    /\ appState = "initial"
    /\ error = NoError
    /\ identifiedIngredients = <<>>
    /\ recipes = <<>>
    /\ activeFilters = <<>>
    /\ selectedRecipe = Null
    /\ runs = <<>>
    /\ isSpeaking = FALSE
    /\ currentStepIndex = 0
    /\ queue = <<>>
    /\ synthPaused = FALSE
    /\ headDone = FALSE
    /\ endEvents = <<>>
    /\ lastOp = [op |-> "none", step |-> -1, flag |-> FALSE]
    /\ lastOpened = Null
    /\ lateEnd = FALSE
    /\ requests = <<>>

\* ------------------------------------------------------------------ speechSynthesis

\* The state RecipeModal's handlers and its effect read and write: the two
\* useState cells, the prop `recipe`, and the browser's speechSynthesis.
Modal ==
    [isSpeaking |-> isSpeaking, currentStepIndex |-> currentStepIndex,
     recipe |-> selectedRecipe, queue |-> queue, paused |-> synthPaused,
     headDone |-> headDone, requests |-> <<>>]

\* speechSynthesis.speaking: an utterance has begun being spoken and has not
\* ended (whether or not the synthesiser is paused).
SynthSpeaking(m) ==
    m.queue # <<>> /\ Head(m.queue).begun

\* speechSynthesis.cancel(): empties the queue; the utterances removed get
\* an 'error' event, never an 'end' event.  The paused state is kept.
cancel(m) ==
    [m EXCEPT !.queue = <<>>, !.headDone = FALSE]

\* speechSynthesis.pause()
pause(m) ==
    [m EXCEPT !.paused = TRUE]

\* speechSynthesis.resume(): an utterance waiting at the head begins.
resume(m) ==
    [m EXCEPT !.paused = FALSE,
              !.queue = IF @ = <<>> THEN @ ELSE <<[Head(@) EXCEPT !.begun = TRUE]>> \o Tail(@)]

\* speechSynthesis.speak(utterance): spoken at once when the synthesiser is
\* not paused and nothing is queued, queued otherwise.
speak(m, utterance) ==
    IF ~m.paused /\ m.queue = <<>>
    THEN [m EXCEPT !.queue = <<[utterance EXCEPT !.begun = TRUE]>>,
                   !.requests = Append(@, utterance)]
    ELSE [m EXCEPT !.queue = Append(@, utterance),
                   !.requests = Append(@, utterance)]

\* ------------------------------------------------------------------ RecipeModal

\* stopSpeaking without the call of speechSynthesis.cancel().
stopSpeakingWithoutCancel(m) ==
    [m EXCEPT !.isSpeaking = FALSE]

\* stopSpeaking
stopSpeaking(m) ==
    [(IF SynthSpeaking(m) THEN cancel(m) ELSE m) EXCEPT !.isSpeaking = FALSE]

\* The utterance the effect builds: its text, and what its onend closes over
\* (currentStepIndex and recipe.instructions.length of the render).
Utterance(m) ==
    [step |-> m.currentStepIndex,
     len |-> Len(m.recipe.instructions),
     text |-> <<"Step", m.currentStepIndex + 1, ".",
                m.recipe.instructions[m.currentStepIndex + 1]>>,
     begun |-> FALSE]

\* The narration effect (the second useEffect) of one render.
NarrationEffect(m) ==
    IF /\ m.isSpeaking
       /\ m.recipe # Null
       /\ m.currentStepIndex < Len(m.recipe.instructions)
    THEN speak(stopSpeaking(m), Utterance(m))
    ELSE m

\* The dependency array of the narration effect (stopSpeaking never changes).
Deps(m) ==
    <<m.isSpeaking, m.currentStepIndex, m.recipe>>

\* React after a handler returned: it renders the new state, and runs the
\* effect when a dependency changed since the render before; the state the
\* effect sets is rendered in turn, until nothing changes.
RECURSIVE Commit(_, _)
Commit(prev, m) ==
    IF Deps(prev) = Deps(m) THEN m ELSE Commit(m, NarrationEffect(m))

\* handlePlayPause
handlePlayPause(m) ==
    IF m.isSpeaking
    THEN [pause(m) EXCEPT !.isSpeaking = FALSE]
    ELSE LET m1 == IF m.paused THEN resume(m)
                   ELSE IF m.currentStepIndex >= Len(m.recipe.instructions)
                        THEN [m EXCEPT !.currentStepIndex = 0]
                        ELSE m
         IN  [m1 EXCEPT !.isSpeaking = TRUE]

\* handleStop
handleStop(m) ==
    [stopSpeaking(m) EXCEPT !.currentStepIndex = 0]

\* The close button: stopSpeaking(); onClose(), which is setSelectedRecipe(null).
handleClose(m) ==
    [stopSpeaking(m) EXCEPT !.recipe = Null]

\* RecipeCard onSelect: setSelectedRecipe(recipe)
handleSelect(m, recipe) ==
    [m EXCEPT !.recipe = recipe]

\* utterance.onend, with the step and the length its closure holds.
onend(m, utterance) ==
    IF utterance.step < utterance.len - 1
    THEN [m EXCEPT !.currentStepIndex = @ + 1]
    ELSE [m EXCEPT !.isSpeaking = FALSE]

\* The speech engine takes the utterance whose 'end' event is dispatched off
\* the queue when it is still the current one, and begins the next.
Dequeue(m, current) ==
    IF ~current THEN m
    ELSE LET rest == Tail(m.queue)
         IN  [m EXCEPT !.headDone = FALSE,
                       !.queue = IF rest = <<>> \/ m.paused THEN rest
                                 ELSE <<[Head(rest) EXCEPT !.begun = TRUE]>> \o Tail(rest)]

\* The modal's state after a handler and the renders it causes.
Becomes(m) ==
    /\ isSpeaking' = m.isSpeaking
    /\ currentStepIndex' = m.currentStepIndex
    /\ selectedRecipe' = m.recipe
    /\ queue' = m.queue
    /\ synthPaused' = m.paused
    /\ headDone' = m.headDone
    /\ requests' = m.requests

\* The step being spoken aloud, or -1.
SpokenStep(m) ==
    IF SynthSpeaking(m) /\ ~m.paused /\ ~m.headDone THEN Head(m.queue).step ELSE -1

Op(op, step, flag) == [op |-> op, step |-> step, flag |-> flag]

\* A click on a recipe card; the cards are covered while the modal is open.
\* lastOp records whether the recipe differs from the one opened before.
SelectRecipe(k) ==
    /\ appState = "results"
    /\ selectedRecipe = Null
    /\ k \in DOMAIN recipes
    /\ Becomes(Commit(Modal, handleSelect(Modal, recipes[k])))
    /\ lastOp' = Op("open", -1, lastOpened \notin {Null, recipes[k]})
    /\ lastOpened' = recipes[k]
    /\ UNCHANGED <<endEvents, lateEnd>>
    /\ UNCHANGED appVars

\* A click on the close button of the modal.
CloseModal ==
    /\ selectedRecipe # Null
    /\ Becomes(Commit(Modal, handleClose(Modal)))
    /\ lastOp' = Op("close", -1, FALSE)
    /\ UNCHANGED <<endEvents, lastOpened, lateEnd>>
    /\ UNCHANGED appVars

\* A click on the play/pause button.  lastOp records the step that was being
\* spoken and the branch taken (flag: the handler saw isSpeaking).
PlayPause ==
    /\ selectedRecipe # Null
    /\ Becomes(Commit(Modal, handlePlayPause(Modal)))
    /\ lastOp' = Op("playpause", SpokenStep(Modal), isSpeaking)
    /\ UNCHANGED <<endEvents, lastOpened, lateEnd>>
    /\ UNCHANGED appVars

\* A click on the stop button.
Stop ==
    /\ selectedRecipe # Null
    /\ Becomes(Commit(Modal, handleStop(Modal)))
    /\ lastOp' = Op("stop", SpokenStep(Modal), FALSE)
    /\ UNCHANGED <<endEvents, lastOpened, lateEnd>>
    /\ UNCHANGED appVars

\* The speech engine has spoken the current utterance to its end and reports
\* it; the 'end' event is dispatched later, by DispatchEnd.
UtteranceEnds ==
    /\ SynthSpeaking(Modal)
    /\ ~synthPaused
    /\ ~headDone
    /\ Len(endEvents) < MaxEndEvents
    /\ headDone' = TRUE
    /\ endEvents' = Append(endEvents, Head(queue))
    /\ UNCHANGED <<selectedRecipe, isSpeaking, currentStepIndex, queue, synthPaused,
                   lastOp, lastOpened, lateEnd, requests>>
    /\ UNCHANGED appVars

\* The 'end' event of an utterance is dispatched: its onend runs.  The event
\* is fired also when the utterance was cancelled after the engine reported
\* it (flag of lastOp: the utterance was no longer the current one).
DispatchEnd ==
    /\ endEvents # <<>>
    /\ LET utterance == Head(endEvents)
           current == headDone /\ Len(endEvents) = 1
           m == Dequeue(Modal, current)
       IN  /\ Becomes(Commit(m, onend(m, utterance)))
           /\ lastOp' = Op("end", utterance.step, ~current)
           /\ lateEnd' = (lateEnd \/ ~current)
           /\ UNCHANGED lastOpened
    /\ endEvents' = Tail(endEvents)
    /\ UNCHANGED appVars

\* The speech engine fails to speak the current utterance and fires its
\* 'error' event.  The utterance has no onerror handler (the effect sets
\* onend only), so no state of the component is set; the engine takes the
\* utterance off its queue.
UtteranceFails ==
    /\ SynthSpeaking(Modal)
    /\ ~headDone
    /\ Becomes(Dequeue(Modal, TRUE))
    /\ lastOp' = Op("error", Head(queue).step, FALSE)
    /\ UNCHANGED <<endEvents, lastOpened, lateEnd>>
    /\ UNCHANGED appVars

\* The recipe lists narration starts from: what the pipeline delivers for
\* the generated lists, every image call succeeding or every one failing.
DeliveredLists ==
    {RecipesWithImages(l, [i \in 1..Len(l) |-> resp]) :
        l \in RecipeLists \cup {<<Omelette, Garnish>>}, resp \in ImageResps}

\* The narration machine on its own: the app shows a delivered recipe list
\* and no pipeline run is outstanding.
NarrationInit ==
    /\ appState = "results"
    /\ error = NoError
    /\ identifiedIngredients = <<<<"e">>, <<"m">>>>
    /\ recipes \in DeliveredLists
    /\ activeFilters = <<>>
    /\ selectedRecipe = Null
    /\ runs = <<>>
    /\ isSpeaking = FALSE
    /\ currentStepIndex = 0
    /\ queue = <<>>
    /\ synthPaused = FALSE
    /\ headDone = FALSE
    /\ endEvents = <<>>
    /\ lastOp = Op("none", -1, FALSE)
    /\ lastOpened = Null
    /\ lateEnd = FALSE
    /\ requests = <<>>

NarrationNext ==
    \/ \E k \in DOMAIN recipes : SelectRecipe(k)
    \/ CloseModal
    \/ PlayPause
    \/ Stop
    \/ UtteranceEnds
    \/ UtteranceFails
    \/ DispatchEnd

NarrationSpec == NarrationInit /\ [][NarrationNext]_vars

Next ==
    \/ HandleImageUpload
    \/ \E f \in DietaryRestriction : HandleFilterChange(f)
    \/ \E r \in DOMAIN runs : \E resp \in ExtractResps : ExtractSettles(r, resp)
    \/ \E r \in DOMAIN runs : \E resp \in GenerateResps : GenerateSettles(r, resp)
    \/ \E r \in DOMAIN runs : \E i \in DOMAIN runs[r].img : \E resp \in ImageResps :
          ImageSettles(r, i, resp)

Spec == Init /\ [][Next]_vars

\* Every gateway call that is outstanding completes, by success or by
\* failure, and the handler that awaits it is resumed.
ExtractCompletes ==
    \E r \in DOMAIN runs : \E resp \in ExtractResps : ExtractSettles(r, resp)

GenerateCompletes ==
    \E r \in DOMAIN runs : \E resp \in GenerateResps : GenerateSettles(r, resp)

ImageCompletes ==
    \E r \in DOMAIN runs : \E i \in DOMAIN runs[r].img : \E resp \in ImageResps :
        ImageSettles(r, i, resp)

\* The pipeline under the assumption that gateway calls complete.
FairSpec ==
    /\ Spec
    /\ WF_vars(ExtractCompletes)
    /\ WF_vars(GenerateCompletes)
    /\ WF_vars(ImageCompletes)

\* ------------------------------------------------------------------ refreshes on their own

\* What the generation service answers under RefreshSpec: lists of at most
\* one recipe, two of them of the same length.
RefreshResps ==
    {FailResp, UndefinedResp, ListResp(<<>>), ListResp(<<Toast>>), ListResp(<<Omelette>>)}

\* The app after an upload delivered its recipes: ingredients are known, no
\* run is outstanding.
RefreshInit ==
    /\ appState = "results"
    /\ error = NoError
    /\ identifiedIngredients = <<<<"e">>, <<"m">>>>
    /\ recipes \in {<<>>, RecipesWithImages(<<Toast>>, <<"ok">>)}
    /\ activeFilters = <<>>
    /\ selectedRecipe = Null
    /\ runs = <<>>
    /\ isSpeaking = FALSE
    /\ currentStepIndex = 0
    /\ queue = <<>>
    /\ synthPaused = FALSE
    /\ headDone = FALSE
    /\ endEvents = <<>>
    /\ lastOp = Op("none", -1, FALSE)
    /\ lastOpened = Null
    /\ lateEnd = FALSE
    /\ requests = <<>>

\* Toggles of one filter, and the continuations of handleFilterChange.
RefreshNext ==
    \/ HandleFilterChangeUpTo("Vegetarian", MaxRefreshes)
    \/ \E r \in DOMAIN runs : \E resp \in RefreshResps : GenerateSettles(r, resp)
    \/ \E r \in DOMAIN runs : \E i \in DOMAIN runs[r].img : \E resp \in ImageResps :
          ImageSettles(r, i, resp)

RefreshSpec == RefreshInit /\ [][RefreshNext]_vars

\* ------------------------------------------------------------------ the filters on their own

\* dietaryOptions: the seven values of the enum, one checkbox each.
dietaryOptions ==
    {"Vegetarian", "Keto", "Gluten-Free", "Vegan", "Low-Carb", "High-Protein",
     "Pescatarian"}

\* The app showing the results of an upload in which no ingredient was
\* identified: filter toggles store the filters and start no refresh.
FilterInit ==
    /\ appState = "results"
    /\ error = NoError
    /\ identifiedIngredients = <<>>
    /\ recipes = <<>>
    /\ activeFilters = <<>>
    /\ selectedRecipe = Null
    /\ runs = <<>>
    /\ isSpeaking = FALSE
    /\ currentStepIndex = 0
    /\ queue = <<>>
    /\ synthPaused = FALSE
    /\ headDone = FALSE
    /\ endEvents = <<>>
    /\ lastOp = Op("none", -1, FALSE)
    /\ lastOpened = Null
    /\ lateEnd = FALSE
    /\ requests = <<>>

\* A click on any of the seven checkboxes.
FilterNext ==
    \E f \in dietaryOptions : HandleFilterChange(f)

FilterSpec == FilterInit /\ [][FilterNext]_vars

\* ------------------------------------------------------------------ extraction on its own

\* The characters of a response text: an upper-case and a lower-case letter,
\* the blank and the comma.
Characters == {"E", "m", " ", ","}

\* Every response text of at most MaxTextLen characters.
Texts == UNION {[1..n -> Characters] : n \in 0..MaxTextLen}

\* handleImageUpload up to its second await, for every answer of the
\* extraction service: the call raised, or it returned a text of Texts.
ExtractionNext ==
    \/ HandleImageUpload
    \/ \E r \in DOMAIN runs :
          /\ runs[r].pc = "extract"
          /\ \E resp \in {FailResp} \cup {TextResp(t) : t \in Texts} :
                ExtractSettles(r, resp)

ExtractionSpec == Init /\ [][ExtractionNext]_vars

\* ------------------------------------------------------------------ claims: the pipeline

\* What a delivered list must be for the generated list and the outcomes of
\* the image calls: the same recipes in the same order, with an image
\* reference exactly where the call did not fail.
DeliversAll(list, generated, img) ==
    /\ Len(list) = Len(generated)
    /\ \A i \in 1..Len(generated) :
          /\ list[i].name = generated[i].name
          /\ list[i].instructions = generated[i].instructions
          /\ ("imageUrl" \in DOMAIN list[i]) <=> (img[i] # "fail")

C2_ExtractionFailureAborts ==
    [][\A r \in DOMAIN runs :
          runs'[r].extractResp = FailResp
          => /\ runs'[r].outcome = "error"
             /\ runs'[r].genCalls = 0
             /\ runs'[r].imgCalls = 0
             /\ runs'[r].wrote = 0
             /\ runs[r].extractResp # FailResp
                => /\ error' = AnalyzeError
                   /\ appState' = "initial"
                   /\ recipes' = recipes]_vars

\* An upload whose extraction failed has been caught.
C2_Witness ==
    \E r \in DOMAIN runs :
        /\ runs[r].kind = "upload"
        /\ runs[r].extractResp = FailResp
        /\ runs[r].pc = "done"
        /\ error = AnalyzeError
        /\ appState = "initial"

\* C3: when recipe generation fails, the run aborts: the error is set, the
\* recipe list is not written, and the run never calls generateRecipeImage
\* or setRecipes.
C3_GenerationFailureAborts ==
    [][\A r \in DOMAIN runs :
          runs'[r].genResp = FailResp
          => /\ runs'[r].outcome = "error"
             /\ runs'[r].imgCalls = 0
             /\ runs'[r].wrote = 0
             /\ runs[r].genResp # FailResp
                => /\ error' = RecipesError
                   /\ recipes' = recipes]_vars

\* A refresh whose generation failed, after an upload that had delivered recipes.
C3_Witness ==
    \E r \in DOMAIN runs :
        /\ runs[r].kind = "refresh"
        /\ runs[r].genResp = FailResp
        /\ runs[r].pc = "done"
        /\ error = RecipesError
        /\ recipes # <<>>

\* C4: within a run, getRecipes is called only after extraction returned,
\* generateRecipeImage only after generation returned its list, and
\* setRecipes only after every image call of the run has settled.
C4_StageOrdering ==
    \A r \in DOMAIN runs :
        /\ (runs[r].kind = "upload" /\ runs[r].genCalls > 0)
           => runs[r].extractResp.tag = "text"
        /\ runs[r].imgCalls > 0 => runs[r].genResp.tag = "list"
        /\ runs[r].wrote > 0
           => /\ runs[r].imgCalls = Len(runs[r].img)
              /\ \A i \in DOMAIN runs[r].img : runs[r].img[i] \in {"ok", "fail"}

\* An upload has delivered after both of its image calls settled.
C4_Witness ==
    \E r \in DOMAIN runs :
        /\ runs[r].kind = "upload"
        /\ runs[r].wrote = 1
        /\ runs[r].imgCalls = 2
        /\ runs[r].genCalls = 1

\* ------------------------------------------------------------------ claims: narration

\* The number of instructions of the open recipe.
OpenLength == Len(selectedRecipe.instructions)

\* C5: when the utterance of step i ends naturally (its 'end' event is that
\* of the current utterance) and a step i+1 exists, the machine is in
\* Speaking(i+1): isSpeaking holds and the utterance of step i+1 is in flight;
\* when no step follows, narration has completed and nothing is in flight.
C5_AdvancesAutomatically ==
    (selectedRecipe # Null /\ lastOp.op = "end" /\ ~lastOp.flag)
    => IF lastOp.step + 1 < OpenLength
       THEN isSpeaking /\ queue # <<>> /\ Head(queue).step = lastOp.step + 1
       ELSE ~isSpeaking /\ queue = <<>>

\* C6: a click on the play/pause control while step i is being spoken pauses:
\* afterwards nothing is being spoken, isSpeaking is false and the step index is i.
C6_PauseKeepsStep ==
    (lastOp.op = "playpause" /\ lastOp.step >= 0)
    => /\ SpokenStep(Modal) = -1
       /\ ~isSpeaking
       /\ currentStepIndex = lastOp.step

\* C7: stop leaves (isSpeaking, currentStepIndex) = (false, 0) with nothing in
\* flight, and the step after a stop, unless it is a play, leaves (false, 0).
C7_StopResets ==
    [][/\ lastOp'.op = "stop"
          => (~isSpeaking' /\ currentStepIndex' = 0 /\ queue' = <<>>)
       /\ (lastOp.op = "stop" /\ lastOp'.op # "playpause")
          => (~isSpeaking' /\ currentStepIndex' = 0)]_vars

\* C8: while a recipe is open, currentStepIndex is within
\* [0, instructions.length].  Stated for the recipes that have instructions
\* and for the behaviours in which no 'end' event came late.
C8_StepIndexInRange ==
    (selectedRecipe # Null /\ OpenLength > 0 /\ ~lateEnd)
    => (0 <= currentStepIndex /\ currentStepIndex <= OpenLength)

\* C9: when a recipe other than the one opened before has just been opened,
\* the narration state is (false, 0) and no narration is in flight.  Stated
\* for the behaviours in which no 'end' event came late.
C9_OpenResets ==
    (lastOp.op = "open" /\ lastOp.flag /\ ~lateEnd)
    => (~isSpeaking /\ currentStepIndex = 0 /\ queue = <<>>)

\* The last step's utterance of the open recipe has just ended naturally
\* (in a behaviour in which no 'end' event came late).
NarrationCompleted ==
    /\ selectedRecipe # Null
    /\ lastOp.op = "end"
    /\ ~lastOp.flag
    /\ lastOp.step = OpenLength - 1
    /\ ~lateEnd

\* C10: after narration has completed, the next play issues the narration
\* request of step 0.
C10_PlayRestarts ==
    [][(NarrationCompleted /\ lastOp'.op = "playpause")
       => (queue' # <<>> /\ Head(queue').step = 0)]_vars

\* C11: an operation issues at most one narration request, and a play that
\* finds a step to narrate issues exactly one; the request's text is
\* "Step (i+1). instructions[i]" for the current step index i; what was in
\* flight has been cancelled, so the request is the only utterance the
\* synthesiser holds, and the synthesiser never holds more than one.
C11_OneRequestPerEntry ==
    /\ Len(queue) <= 1
    /\ Len(requests) <= 1
    /\ (/\ lastOp.op = "playpause"
        /\ ~lastOp.flag
        /\ selectedRecipe # Null
        /\ currentStepIndex < OpenLength) => Len(requests) = 1
    /\ requests # <<>>
       => /\ selectedRecipe # Null
          /\ requests[1].step = currentStepIndex
          /\ requests[1].text = <<"Step", currentStepIndex + 1, ".",
                                  selectedRecipe.instructions[currentStepIndex + 1]>>
          /\ queue = <<[requests[1] EXCEPT !.begun = TRUE]>>

\* A play clicked while step 2 of the omelette was being spoken has issued
\* the request of step 2 again.
C11_Witness ==
    /\ lastOp.op = "playpause"
    /\ lastOp.step = 1
    /\ Len(requests) = 1
    /\ requests[1].text = <<"Step", 2, ".", "fry">>
    /\ Len(queue) = 1

\* ------------------------------------------------------------------ claims: refresh

Outstanding == {r \in DOMAIN runs : runs[r].pc # "done"}

\* C13: at most one run is outstanding in any state.
C13_OneRunOutstanding ==
    Cardinality(Outstanding) <= 1

\* C14: a run calls analyzeFridgeContents at most once and getRecipes at
\* most once, and generateRecipeImage once per recipe of the generated list
\* (not at all without a list); a run whose call failed has not called again.
C14_SingleShot ==
    \A r \in DOMAIN runs :
        /\ runs[r].extractCalls <= 1
        /\ runs[r].genCalls <= 1
        /\ runs[r].imgCalls = IF runs[r].genResp.tag = "list"
                              THEN Len(runs[r].genResp.recipes) ELSE 0
        /\ runs[r].imgCalls = Len(runs[r].img)
        /\ runs[r].extractResp = FailResp
           => (runs[r].extractCalls = 1 /\ runs[r].pc = "done")
        /\ runs[r].genResp = FailResp
           => (runs[r].genCalls = 1 /\ runs[r].pc = "done")

\* An upload has ended after one call of each of the first two stages and two
\* image calls, the first of which failed.
C14_Witness ==
    \E r \in DOMAIN runs :
        /\ runs[r].kind = "upload"
        /\ runs[r].pc = "done"
        /\ runs[r].extractCalls = 1
        /\ runs[r].genCalls = 1
        /\ runs[r].img = <<"fail", "ok">>
        /\ runs[r].imgCalls = 2

\* ------------------------------------------------------------------ claims: extraction

\* C15: an upload whose extraction response has no text ends in its catch
\* block, and has not called getRecipes.
C15_NoTextFails ==
    \A r \in DOMAIN runs :
        runs[r].extractResp = TextResp(<<>>)
        => /\ runs[r].outcome = "error"
           /\ runs[r].genCalls = 0
           /\ runs[r].wrote = 0

\* ------------------------------------------------------------------ claims: the recipes

\* `delivered` is `generated` with nothing changed but an image reference
\* attached, which is the result of the image call made with the recipe's name.
OnlyImageAttached(delivered, generated) ==
    /\ DOMAIN delivered \subseteq DOMAIN generated \cup {"imageUrl"}
    /\ \A field \in DOMAIN generated : delivered[field] = generated[field]
    /\ "imageUrl" \in DOMAIN delivered
       => delivered.imageUrl = generateRecipeImage(generated.name, "ok").value

\* C16: the list a run delivers is the generated list with nothing changed
\* but the image references, each the result of the call made with its own
\* recipe's name; and the list the app holds is always the list some run
\* delivered, as delivered (or the empty list the app starts with).
C16_OnlyImageAttached ==
    /\ \A r \in DOMAIN runs :
          runs[r].outcome = "delivered"
          => /\ Len(runs[r].result) = Len(runs[r].genResp.recipes)
             /\ \A i \in DOMAIN runs[r].result :
                   OnlyImageAttached(runs[r].result[i], runs[r].genResp.recipes[i])
    /\ \/ recipes = <<>>
       \/ \E r \in DOMAIN runs :
             runs[r].outcome = "delivered" /\ recipes = runs[r].result

\* The app holds the omelette and the toast, each with the image made for it.
C16_Witness ==
    /\ Len(recipes) = 2
    /\ recipes[1].name = "Omelette"
    /\ recipes[1].calories = 300
    /\ "imageUrl" \in DOMAIN recipes[1]
    /\ recipes[1].imageUrl = <<"data:image/png", "Omelette">>
    /\ recipes[2].name = "Toast"
    /\ "imageUrl" \in DOMAIN recipes[2]
    /\ recipes[2].imageUrl = <<"data:image/png", "Toast">>

\* ------------------------------------------------------------------ claims: narration failures

\* C17: when the speech engine has reported an error for the utterance of a
\* step, the narration state is (false, 0) and nothing is in flight.  Stated
\* for the behaviours in which no 'end' event came late.
C17_StartFailureIdles ==
    (lastOp.op = "error" /\ ~lateEnd)
    => (~isSpeaking /\ currentStepIndex = 0 /\ queue = <<>>)

\* ------------------------------------------------------------------ claims: the ingredient list

\* The places that bound the comma-separated pieces of `s`: before its first
\* character, at every comma, and after its last character.
Bounds(s) == {0, Len(s) + 1} \cup {i \in 1..Len(s) : s[i] = ","}

\* The piece of `s` that starts after the bound p, without the blanks at its
\* ends and lower-cased.
Piece(s, p) ==
    LET q == CHOOSE x \in Bounds(s) : x > p /\ \A y \in Bounds(s) : y > p => x <= y
        letters == {i \in (p + 1)..(q - 1) : s[i] # " "}
    IN  IF letters = {} THEN <<>>
        ELSE LET first == CHOOSE i \in letters : \A k \in letters : i <= k
                 last == CHOOSE i \in letters : \A k \in letters : k <= i
             IN  [i \in 1..(last - first + 1) |->
                    IF s[first + i - 1] = "E" THEN "e" ELSE s[first + i - 1]]

\* The bounds of `s` after which a piece that is not empty starts.
Kept(s) == {p \in Bounds(s) \ {Len(s) + 1} : Piece(s, p) # <<>>}

\* `list` holds the pieces of `s` that are not empty, in their order.
IsNormalised(list, s) ==
    /\ Len(list) = Cardinality(Kept(s))
    /\ \A p \in Kept(s) : list[Cardinality({q \in Kept(s) : q <= p})] = Piece(s, p)

\* An ingredient: not empty, no blank at either end, no upper-case letter
\* and no comma in it.
WellFormed(ingredient) ==
    /\ ingredient # <<>>
    /\ Head(ingredient) # " "
    /\ ingredient[Len(ingredient)] # " "
    /\ \A i \in DOMAIN ingredient : ingredient[i] \notin {"E", ","}

\* C18: the list the app holds is a sequence of well-formed ingredients; the
\* list an extraction returned for a text holds the comma-separated pieces of
\* the text, trimmed and lower-cased, without the empty ones, in their order;
\* and the list the app holds is the list some extraction returned (or the
\* empty list the app starts with).
C18_IngredientsNormalised ==
    /\ \A i \in DOMAIN identifiedIngredients : WellFormed(identifiedIngredients[i])
    /\ \A r \in DOMAIN runs :
          (runs[r].extractResp.tag = "text" /\ runs[r].extractResp.text # <<>>)
          => IsNormalised(runs[r].ingredients, runs[r].extractResp.text)
    /\ \/ identifiedIngredients = <<>>
       \/ \E r \in DOMAIN runs :
             /\ runs[r].extractResp.tag = "text"
             /\ identifiedIngredients = runs[r].ingredients

\* The response "E ,,m" left the list <<"e", "m">>.
C18_Witness ==
    /\ identifiedIngredients = <<<<"e">>, <<"m">>>>
    /\ \E r \in DOMAIN runs :
          runs[r].extractResp = TextResp(<<"E", " ", ",", ",", "m">>)

\* ------------------------------------------------------------------ claims: determinism of refresh

\* The image calls of a run that failed.
FailedImageCalls(run) ==
    {i \in DOMAIN run.img : run.img[i] = "fail"}

\* Two runs met the same fault conditions: their generation calls failed
\* alike (the call raised, the response had no recipe list, or it had one),
\* and the same image calls failed.
SameFaults(a, b) ==
    /\ a.genResp.tag = b.genResp.tag
    /\ FailedImageCalls(a) = FailedImageCalls(b)

\* The generation calls of two runs did not return lists of different lengths.
SameLength(a, b) ==
    (a.genResp.tag = "list" /\ b.genResp.tag = "list")
    => Len(a.genResp.recipes) = Len(b.genResp.recipes)

\* Two refreshes that have ended, started with the same ingredients and filters.
SameRefresh(a, b) ==
    /\ a.kind = "refresh" /\ b.kind = "refresh"
    /\ a.pc = "done" /\ b.pc = "done"
    /\ a.ingredients = b.ingredients
    /\ a.filters = b.filters

\* The positions of `list` whose recipe has no image reference.
LackingImage(list) ==
    {i \in DOMAIN list : "imageUrl" \notin DOMAIN list[i]}

\* Two runs ended alike: both delivered or both ended in the catch block,
\* with lists of the same length that lack an image at the same positions.
SameOutcome(a, b) ==
    /\ a.outcome = b.outcome
    /\ Len(a.result) = Len(b.result)
    /\ LackingImage(a.result) = LackingImage(b.result)

\* C19 as stated: two refreshes with the same ingredients and filters that
\* met with the same fault conditions ended alike.
C19_RefreshDeterministic ==
    \A a \in DOMAIN runs : \A b \in DOMAIN runs :
        (SameRefresh(runs[a], runs[b]) /\ SameFaults(runs[a], runs[b]))
        => SameOutcome(runs[a], runs[b])

\* C19 amended: two refreshes with the same ingredients and filters that met
\* with the same fault conditions, and whose generation calls did not return
\* lists of different lengths, ended alike, whatever the app's state was
\* when each started and however they overlapped.
C19_RefreshDeterministicForEqualLengths ==
    \A a \in DOMAIN runs : \A b \in DOMAIN runs :
        (/\ SameRefresh(runs[a], runs[b])
         /\ SameFaults(runs[a], runs[b])
         /\ SameLength(runs[a], runs[b]))
        => SameOutcome(runs[a], runs[b])

\* Two refreshes with the filter 'Vegetarian', around one that failed, each
\* delivered one recipe without image: the toast and the omelette.
C19_Witness ==
    /\ Len(runs) = 3
    /\ runs[1].filters = runs[3].filters
    /\ runs[1].outcome = "delivered"
    /\ runs[2].outcome = "error"
    /\ runs[3].outcome = "delivered"
    /\ runs[1].img = <<"fail">>
    /\ runs[3].img = <<"fail">>
    /\ runs[1].result = <<Toast>>
    /\ runs[3].result = <<Omelette>>

\* ------------------------------------------------------------------ claims: the displayed list

\* C20: when the app shows results without error and no run is outstanding,
\* the list it holds is the one the most recently started run delivered, and
\* that run was started with the active filters.  Stated for the states in
\* which the ingredient list is not empty.
C20_DisplayedMatchesFilters ==
    (/\ appState = "results"
     /\ error = NoError
     /\ Outstanding = {}
     /\ runs # <<>>
     /\ Len(identifiedIngredients) > 0)
    => LET last == runs[Len(runs)]
       IN  /\ last.filters = activeFilters
           /\ last.outcome = "delivered"
           /\ recipes = last.result

\* ------------------------------------------------------------------ claims: the speaking flag

\* isSpeaking holds, a step remains to narrate, and the synthesiser holds no
\* utterance.
SpeakingWithoutUtterance ==
    /\ isSpeaking
    /\ selectedRecipe # Null
    /\ currentStepIndex < OpenLength
    /\ queue = <<>>

\* C21: while a recipe is open, isSpeaking holds whenever an utterance is
\* being spoken, and when isSpeaking holds with a step left to narrate the
\* synthesiser holds an utterance and is not paused.  Stated for the
\* behaviours in which no 'end' event came late.
C21_FlagAgreesWithSynth ==
    (selectedRecipe # Null /\ ~lateEnd)
    => /\ SpokenStep(Modal) >= 0 => isSpeaking
       /\ (isSpeaking /\ currentStepIndex < OpenLength)
          => (queue # <<>> /\ ~synthPaused)
       /\ ~SpeakingWithoutUtterance

\* ------------------------------------------------------------------ claims: termination

\* C22: when gateway calls complete, every run that was started reaches the
\* end of its handler, the app always leaves 'analyzing' and 'generating'
\* for 'results' or 'initial', and in every state without outstanding run
\* appState is neither 'analyzing' nor 'generating'.
C22_RunsTerminate ==
    /\ [](Outstanding = {} => appState \in {"initial", "results"})
    /\ \A r \in 1..MaxRuns :
          (r \in DOMAIN runs) ~> (r \in DOMAIN runs /\ runs[r].pc = "done")
    /\ (appState \in {"analyzing", "generating"})
          ~> (appState \in {"initial", "results"})

\* An upload and the refresh started during it have both ended, the upload
\* last and in its catch block: the app is back in 'initial'.
C22_Witness ==
    /\ Len(runs) = 2
    /\ Outstanding = {}
    /\ runs[1].kind = "upload"
    /\ runs[1].outcome = "error"
    /\ runs[2].kind = "refresh"
    /\ runs[2].outcome = "delivered"
    /\ appState = "initial"

\* ------------------------------------------------------------------ claims: fatal failures

\* A run enters the catch block of its handler in this step.
Fails(r) ==
    runs[r].pc # "done" /\ runs'[r].outcome = "error"

\* C23: when a run enters its catch block, the stored recipe list is the one
\* stored when the run started, the error message is set, and the app is in
\* 'initial' after an upload and in 'results' after a refresh; and a step
\* that starts a run leaves no error message.
C23_FailureKeepsRecipes ==
    [][/\ \A r \in DOMAIN runs :
             Fails(r)
             => /\ recipes' = runs[r].before
                /\ error' # NoError
                /\ appState' = IF runs[r].kind = "upload" THEN "initial" ELSE "results"
       /\ Len(runs') > Len(runs) => error' = NoError]_vars

\* ------------------------------------------------------------------ claims: the filters

\* The tags of a filter list.
Tags(filters) == {filters[i] : i \in DOMAIN filters}

\* No tag occurs twice in the list.
NoDuplicates(filters) ==
    \A i \in DOMAIN filters : \A j \in DOMAIN filters :
        filters[i] = filters[j] => i = j

\* The place of a tag in a list that holds it once.
Place(filters, tag) == CHOOSE i \in DOMAIN filters : filters[i] = tag

\* The tags that `old` and `new` share are in the same order in both.
SameOrder(old, new) ==
    \A a \in Tags(old) \cap Tags(new) : \A b \in Tags(old) \cap Tags(new) :
        Place(old, a) < Place(old, b) <=> Place(new, a) < Place(new, b)

\* `new` is `old` after a toggle of `tag`: the tag appended at the end when it
\* was absent, taken out when it was present, the others in their order.
Toggled(old, new, tag) ==
    /\ NoDuplicates(new)
    /\ SameOrder(old, new)
    /\ IF tag \in Tags(old)
       THEN Tags(new) = Tags(old) \ {tag}
       ELSE /\ Tags(new) = Tags(old) \cup {tag}
            /\ new[Len(new)] = tag

\* C24: the active filter list never holds a tag twice; every step that
\* changes it is the toggle of one tag; and toggling any tag twice gives a
\* list with the tags the list holds now.
C24_ToggleAlgebra ==
    /\ [](NoDuplicates(activeFilters))
    /\ [][activeFilters' # activeFilters
            => \E tag \in dietaryOptions : Toggled(activeFilters, activeFilters', tag)]_vars
    /\ [](\A tag \in dietaryOptions :
            Tags(ToggleFilters(ToggleFilters(activeFilters, tag), tag)) = Tags(activeFilters))

\* 'Vegetarian', the first checkbox, is the last of three active filters.
C24_Witness ==
    activeFilters = <<"Keto", "Vegan", "Vegetarian">>

====
